---------------------------- MODULE Spec2Model ----------------------------
(***************************************************************************)
(* The progressive canvas driver of raytracer-wasm/www/index.js, run by a  *)
(* browser-style host event loop, together with the engine functions it    *)
(* imports (create_world, create_camera, color_at and, under color_at,     *)
(* ray_for_pixel, hits and shade).                                         *)
(*                                                                         *)
(* Geometry is discretised: world coordinates are integers in half-pixel   *)
(* units, every shape is an axis-aligned box, the camera is orthographic   *)
(* and looks down -z.  A colour component c is the integer numerator of    *)
(* c = n / Den, so that 255 * c is known to a quarter of a byte.           *)
(***************************************************************************)
EXTENDS Integers, Sequences, FiniteSets, TLC

\* Raster size used by the model (index.js uses 600 x 300).
CANVAS_WIDTH == 3
CANVAS_HEIGHT == 2
\* How many clicks the user makes on each element.
MaxRenderClicks == 2
MaxFreezedClicks == 1
\* Longest world built by the engine specification.
MaxShapes == 3

\* Denominator of a colour component.
Den == 4 * 255

Pixels == (0 .. CANVAS_WIDTH - 1) \X (0 .. CANVAS_HEIGHT - 1)

-----------------------------------------------------------------------------
(* Engine: shapes, materials, lights, worlds.                              *)

None == [hit |-> FALSE]

Material(r, g, b, amb, dif) ==
    [color |-> <<r, g, b>>, ambient |-> amb, diffuse |-> dif]

Box(n, x0, x1, y0, y1, z0, z1, m) ==
    [id |-> n, xmin |-> x0, xmax |-> x1, ymin |-> y0, ymax |-> y1,
     zmin |-> z0, zmax |-> z1, material |-> m]

PointLight(p, i) == [position |-> p, intensity |-> i]

\* The shapes the worlds are made of.
\*   1: in front of the camera, around the optical axis
\*   2: encloses part of the camera plane (one t < 0, one t > 0)
\*   3: entirely behind the camera (both t < 0)
\*   4: touches the camera plane (t = 0) on the +x side
\*   5: a flat sheet at the depth of the front face of 1 (equal roots, tie)
ShapePool ==
    << Box(1, -1, 1, -3, 3, -3, -1, Material(2, 6, 5, 1, 0)),
       Box(2, -3, 1, 0, 3, -2, 1, Material(509, -4, 400, 1, 1)),
       Box(3, -3, 3, -3, 3, 1, 2, Material(1020, 1020, 1020, 1, 1)),
       Box(4, 1, 3, -3, -1, -1, 0, Material(7, 10, 1020, 1, 0)),
       Box(5, -1, 1, -3, 0, -1, -1, Material(1018, 511, 0, 1, 0)) >>

\* A world: shapes in insertion order, and lights.
World(ss, ls) == [shapes |-> ss, lights |-> ls]

\* The scenes create_world can return.  In scene 3 a light sits on the
\* front face of shape 1, on the ray of the last pixel of column 1:
\* shading that point normalizes a zero vector.
Scenes ==
    << World(<<ShapePool[3], ShapePool[2], ShapePool[1]>>,
             <<PointLight(<<-10, 10, 10>>, <<1, 1, 1>>)>>),
       World(<<ShapePool[5], ShapePool[1], ShapePool[2], ShapePool[4]>>,
             <<PointLight(<<-10, 10, 10>>, <<1, 1, 1>>),
               PointLight(<<0, 0, -4>>, <<1, 0, 2>>)>>),
       World(<<ShapePool[1], ShapePool[2]>>,
             <<PointLight(<<CANVAS_WIDTH - 3, 1 - CANVAS_HEIGHT, -1>>,
                          <<1, 1, 1>>)>>) >>

WorldOf(h) == Scenes[h]

create_world(h) == h

create_camera(w, h) == [width |-> w, height |-> h]

-----------------------------------------------------------------------------
(* Engine: ray generation, nearest hit, shading, colour resolution.        *)

Fail(e) == [ok |-> FALSE, error |-> e]

Ok(v) == [ok |-> TRUE, value |-> v]

Black == <<0, 0, 0>>

\* Pixel sizes are 2 units; (0,0) is the top-left pixel and the pixel
\* centre is sampled.
ray_for_pixel(cam, px, py) ==
    IF px < 0 \/ px >= cam.width \/ py < 0 \/ py >= cam.height
    THEN Fail("bounds")
    ELSE Ok([origin |-> <<cam.width - (2 * px + 1),
                          cam.height - (2 * py + 1), 0>>,
             direction |-> <<0, 0, -1>>])

position(ray, t) ==
    [k \in 1 .. 3 |-> ray.origin[k] + ray.direction[k] * t]

\* The ordered t values at which the ray crosses the faces of the box.
local_intersect(s, ray) ==
    IF /\ s.xmin <= ray.origin[1] /\ ray.origin[1] <= s.xmax
       /\ s.ymin <= ray.origin[2] /\ ray.origin[2] <= s.ymax
    THEN <<ray.origin[3] - s.zmax, ray.origin[3] - s.zmin>>
    ELSE <<>>

\* All (t, shape) pairs of the world, shape by shape.
RECURSIVE Intersections(_, _)
Intersections(ss, ray) ==
    IF ss = <<>> THEN <<>>
    ELSE LET ts == local_intersect(Head(ss), ray)
         IN  [k \in 1 .. Len(ts) |-> [t |-> ts[k], object |-> Head(ss).id]]
             \o Intersections(Tail(ss), ray)

\* Variant: an intersection at the ray origin counts as visible.
VisibleOrTouching(x) == x.t >= 0

Visible(x) == x.t > 0

\* The first pair with the least t.
Nearest(xs) ==
    LET k == CHOOSE k \in 1 .. Len(xs) :
                 \A m \in 1 .. Len(xs) :
                     xs[k].t < xs[m].t \/ (xs[k].t = xs[m].t /\ k <= m)
    IN  xs[k]

\* The one element of a singleton; {e(x) : x \in {v}} computes v once.
The(S) == CHOOSE x \in S : TRUE

hits(w, ray) ==
    The({ IF cands = <<>> THEN None
          ELSE [hit |-> TRUE, t |-> Nearest(cands).t,
                object |-> Nearest(cands).object] :
          cands \in {SelectSeq(Intersections(w.shapes, ray), Visible)} })

ShapeById(w, n) ==
    LET k == CHOOSE k \in 1 .. Len(w.shapes) : w.shapes[k].id = n
    IN  w.shapes[k]

\* Phong shading of a camera-facing surface point.  The cosine between
\* light and normal is kept as its sign; the specular term is left out.
shade(m, light, point) ==
    IF light.position = point
    THEN Fail("normalize")
    ELSE LET ldn == IF light.position[3] > point[3] THEN 1
                    ELSE IF light.position[3] = point[3] THEN 0 ELSE -1
             amb == [k \in 1 .. 3 |->
                        m.color[k] * m.ambient * light.intensity[k]]
             dif == [k \in 1 .. 3 |->
                        IF ldn < 0 THEN 0
                        ELSE m.color[k] * m.diffuse * ldn * light.intensity[k]]
         IN  Ok([k \in 1 .. 3 |-> amb[k] + dif[k]])

\* The sum of the shading under every light of the world.
RECURSIVE Lighting(_, _, _)
Lighting(m, ls, point) ==
    IF ls = <<>> THEN Ok(Black)
    ELSE LET one == shade(m, Head(ls), point)
             rest == Lighting(m, Tail(ls), point)
         IN  IF ~one.ok THEN one
             ELSE IF ~rest.ok THEN rest
             ELSE Ok([k \in 1 .. 3 |-> one.value[k] + rest.value[k]])

Shading(w, ray, h) ==
    IF ~h.hit THEN Ok(Black)
    ELSE The({ Lighting(m, w.lights, p) :
               m \in {ShapeById(w, h.object).material},
               p \in {position(ray, h.t)} })

color_at(wh, cam, px, py) ==
    The({ IF ~r.ok THEN r
          ELSE The({ Shading(WorldOf(wh), r.value, h) :
                     h \in {hits(WorldOf(wh), r.value)} }) :
          r \in {ray_for_pixel(cam, px, py)} })

\* A world is validly constructed when no light lies on the face of a shape.
ValidWorld(w) ==
    \A i \in 1 .. Len(w.lights) : \A k \in 1 .. Len(w.shapes) :
        LET p == w.lights[i].position
            s == w.shapes[k]
        IN  ~ (/\ s.xmin <= p[1] /\ p[1] <= s.xmax
               /\ s.ymin <= p[2] /\ p[2] <= s.ymax
               /\ p[3] \in {s.zmin, s.zmax})

-----------------------------------------------------------------------------
(* Driver state.                                                           *)

VARIABLES
    count,        \* let count
    freezedText,  \* $freezedText.innerHTML
    world,        \* const world: handle of the engine's world
    camera,       \* const camera
    host,         \* the host's rule for choosing the next task to run
    canvas,       \* $canvas.width, $canvas.height
    raster,       \* the canvas bitmap: RGBA bytes of every pixel
    renders,      \* activations of the async render click handler
    queue,        \* host tasks waiting to run, in arrival order
    cur,          \* the task the host is running
    uncaught,     \* exceptions that escaped a task (reported by the host)
    clicks,       \* clicks made so far on each element
    nCalls,       \* history: color_at calls per render and pixel
    nWrites,      \* history: putImageData calls per render and pixel
    lastCall,     \* history: arguments of the latest color_at call
    got,          \* history: for each pixel, the latest result of color_at
                  \*          and whether the ray hit nothing
    taskPixels,   \* history: <<render, i, j>> resolved by the running task
    waited,       \* history, kept under an arrival-order host: per queued
                  \*          freezed click, the color_at calls made since it
                  \*          was queued, up to height + 1
    hist,         \* history: per render, what was done at start and at end
    eWorld,       \* engine: the world under construction
    eQuery        \* engine: the latest hits query and its answer

vars == <<count, freezedText, world, camera, host, canvas, raster, renders,
          queue, cur, uncaught, clicks, nCalls, nWrites, lastCall, got,
          taskPixels, waited, hist, eWorld, eQuery>>

driverVars == <<count, freezedText, world, camera, host, canvas, raster,
                renders, queue, cur, uncaught, clicks, nCalls, nWrites,
                lastCall, got, taskPixels, waited, hist>>

engineVars == <<eWorld, eQuery>>

Idle == [pc |-> "idle"]

Click(target) == [type |-> "click", target |-> target]

Timer(r) == [type |-> "timer", render |-> r]

Transparent == <<0, 0, 0, 0>>

NoCall == [made |-> FALSE]

NoQuery == [asked |-> FALSE]

ZeroCounts == [p \in Pixels |-> 0]

\* The page after the module has run, before any event.
Boot ==
    /\ count = 0
    /\ freezedText = <<>>
    /\ world \in {create_world(h) : h \in 1 .. Len(Scenes)}
    /\ camera = create_camera(CANVAS_WIDTH, CANVAS_HEIGHT)
    /\ canvas = [width |-> CANVAS_WIDTH, height |-> CANVAS_HEIGHT]
    /\ raster = [p \in Pixels |-> Transparent]
    /\ renders = <<>>
    /\ queue = <<>>
    /\ cur = Idle
    /\ uncaught = {}
    /\ clicks = [render |-> 0, freezed |-> 0]
    /\ nCalls = <<>>
    /\ nWrites = <<>>
    /\ lastCall = NoCall
    /\ got = [p \in Pixels |-> NoCall]
    /\ taskPixels = {}
    /\ waited = <<>>
    /\ hist = <<>>
    /\ eWorld = World(<<>>, <<>>)
    /\ eQuery = NoQuery

\* A host that may run a due timer ahead of an older event.
Init == Boot /\ host = "any"

\* A host that runs queued tasks of every kind in the order they arrived.
FifoInit == Boot /\ host = "arrival"

-----------------------------------------------------------------------------
(* Pixel conversion and canvas access.                                     *)

\* 255 * component, as a numerator over Den.
Times255(n) == 255 * n

\* Variant: the store of a Uint8Array, which truncates and wraps.
ToUint8(num) ==
    IF num >= 0 THEN (num \div Den) % 256
    ELSE (256 - (((0 - num) \div Den) % 256)) % 256

\* Storing a number into a Uint8ClampedArray: clamp to [0, 255], then round
\* to the nearest integer, a tie going to the even one.
ToUint8Clamp(num) ==
    IF num <= 0 THEN 0
    ELSE IF num >= 255 * Den THEN 255
    ELSE LET f == num \div Den
             rem == num % Den
         IN  IF 2 * rem < Den THEN f
             ELSE IF 2 * rem > Den THEN f + 1
             ELSE IF f % 2 = 0 THEN f ELSE f + 1

\* A pixel outside the bitmap reads as transparent black.
GetImageData(ras, x, y) ==
    IF <<x, y>> \in DOMAIN ras THEN ras[<<x, y>>] ELSE Transparent

\* Variant: the coordinates are passed in the wrong order.
PutImageDataSwapped(ras, data, x, y) ==
    IF <<y, x>> \in DOMAIN ras THEN [ras EXCEPT ![<<y, x>>] = data] ELSE ras

\* Variant: the data is written over the whole column of the pixel.
PutImageDataColumn(ras, data, x, y) ==
    [p \in DOMAIN ras |-> IF p[1] = x THEN data ELSE ras[p]]

\* A pixel outside the bitmap is not written.
PutImageData(ras, data, x, y) ==
    IF <<x, y>> \in DOMAIN ras THEN [ras EXCEPT ![<<x, y>>] = data] ELSE ras

\* Variant: the colour is added to the bytes read back (+= for =).
SetDataAdd(data, color) ==
    [data EXCEPT ![1] = ToUint8Clamp(@ * Den + Times255(color[1])),
                 ![2] = ToUint8Clamp(@ * Den + Times255(color[2])),
                 ![3] = ToUint8Clamp(@ * Den + Times255(color[3])),
                 ![4] = 255]

\* Variant: the alpha byte is left as it was read.
SetDataNoAlpha(data, color) ==
    [data EXCEPT ![1] = ToUint8Clamp(Times255(color[1])),
                 ![2] = ToUint8Clamp(Times255(color[2])),
                 ![3] = ToUint8Clamp(Times255(color[3]))]

\* imageData.data after the four assignments.
SetData(data, color) ==
    [data EXCEPT ![1] = ToUint8Clamp(Times255(color[1])),
                 ![2] = ToUint8Clamp(Times255(color[2])),
                 ![3] = ToUint8Clamp(Times255(color[3])),
                 ![4] = 255]

-----------------------------------------------------------------------------
(* Host event loop and handlers.                                           *)

RemoveAt(q, k) == SubSeq(q, 1, k - 1) \o SubSeq(q, k + 1, Len(q))

\* Clicks are dispatched in the order they were made. A host may run a
\* due timer ahead of older events and the timers of different renders in
\* any order, or it runs every task in the order it was queued.
Eligible(k) ==
    /\ host = "arrival" => k = 1
    /\ \/ queue[k].type = "timer"
       \/ \A m \in 1 .. k - 1 : queue[m].type # "click"

\* Variant: the loop stops one column early.
MoreColumnsShort(i) == i + 1 < canvas.width

MoreColumns(i) == i < canvas.width

\* Variant: the row loop stops one row early.
MoreRowsShort(j) == j + 1 < canvas.height

\* Variant: the row loop runs one row past the canvas.
MoreRowsInclusive(j) == j <= canvas.height

MoreRows(j) == j < canvas.height

\* Variant: the row counter advances by two.
NextRowSkip(j) == j + 2

\* j++
NextRow(j) == j + 1

\* The timer callback, entered at its first row.
Callback(task, r) ==
    IF MoreRows(0)
    THEN [pc |-> "row", task |-> task, render |-> r, j |-> 0]
    ELSE [pc |-> "resolve", task |-> task, render |-> r, j |-> 0]

\* Variant: the callback is called at once instead of through a timer.
ScheduleSync(q, task, r) == [queue |-> q, cur |-> Callback(task, r)]

\* await new Promise(resolve => setTimeout(callback, 0)): the callback is
\* queued as a timer task and the handler suspends, which ends the task.
Schedule(q, task, r) == [queue |-> Append(q, Timer(r)), cur |-> Idle]

\* Variant: the exception is caught and the row goes on with no colour.
ThrowSwallowed(c) ==
    [pc |-> "write", task |-> c.task, render |-> c.render, j |-> c.j,
     color |-> Black]

\* An exception leaving the callback ends the task.
Throw(c) == Idle

\* The user clicks an element; the host queues the event.
UserClick(target) ==
    /\ clicks[target] < (IF target = "render" THEN MaxRenderClicks
                         ELSE MaxFreezedClicks)
    /\ clicks' = [clicks EXCEPT ![target] = @ + 1]
    /\ queue' = Append(queue, Click(target))
    /\ waited' = IF target = "freezed" /\ host = "arrival"
                 THEN Append(waited, 0)
                 ELSE waited
    /\ UNCHANGED <<count, freezedText, world, camera, canvas, host, raster,
                   renders, cur, uncaught, nCalls, nWrites, lastCall, got,
                   taskPixels, hist, engineVars>>

\* The click listener of $freezed.
FreezedHandler ==
    \E k \in 1 .. Len(queue) :
        /\ cur = Idle
        /\ Eligible(k)
        /\ queue[k] = Click("freezed")
        /\ count' = count + 1
        /\ freezedText' = <<"No, you are not! (", count + 1, ")">>
        /\ queue' = RemoveAt(queue, k)
        /\ taskPixels' = {}
        /\ waited' = IF host = "arrival" THEN Tail(waited) ELSE waited
        /\ UNCHANGED <<world, camera, canvas, host, raster, renders, cur,
                       uncaught,
                       clicks, nCalls, nWrites, lastCall, got, hist,
                       engineVars>>

\* Variant: every render click builds its own world.
RenderRebuilds ==
    /\ world' = create_world(1 + (world % Len(Scenes)))
    /\ UNCHANGED <<count, freezedText, camera, canvas, host, raster, uncaught,
                   clicks, lastCall, got, waited, engineVars>>

\* Variant: a render click resets the counter.
RenderResetsCount ==
    /\ count' = 0
    /\ UNCHANGED <<freezedText, world, camera, canvas, host, raster, uncaught,
                   clicks, lastCall, got, waited, engineVars>>

\* What the render click listener never assigns.
RenderHandlerKeeps ==
    UNCHANGED <<count, freezedText, world, camera, canvas, host, raster,
                uncaught,
                clicks, lastCall, got, waited, engineVars>>

DoneRenders == {r \in 1 .. Len(renders) : renders[r].pc = "done"}

\* The click listener of $render, up to its first await.
RenderHandler ==
    \E k \in 1 .. Len(queue) :
        /\ cur = Idle
        /\ Eligible(k)
        /\ queue[k] = Click("render")
        /\ LET r == Len(renders) + 1
               q == RemoveAt(queue, k)
               go == Schedule(q, queue[k], r)
           IN  /\ nCalls' = Append(nCalls, ZeroCounts)
               /\ nWrites' = Append(nWrites, ZeroCounts)
               /\ IF MoreColumns(0)
                  THEN /\ renders' = Append(renders,
                                        [pc |-> "await", i |-> 0,
                                         promise |-> "pending"])
                       /\ queue' = go.queue
                       /\ cur' = go.cur
                       /\ hist' = Append(hist, [after |-> DoneRenders,
                                                end |-> <<>>])
                  ELSE /\ renders' = Append(renders,
                                        [pc |-> "done", i |-> 0,
                                         promise |-> "none"])
                       /\ queue' = q
                       /\ cur' = Idle
                       /\ hist' = Append(hist, [after |-> DoneRenders,
                                                end |-> <<raster>>])
        /\ taskPixels' = {}
        /\ RenderHandlerKeeps

\* The host fires a timer: the callback of one column starts.
TimerFire ==
    \E k \in 1 .. Len(queue) :
        /\ cur = Idle
        /\ Eligible(k)
        /\ queue[k].type = "timer"
        /\ cur' = Callback(queue[k], queue[k].render)
        /\ queue' = RemoveAt(queue, k)
        /\ taskPixels' = {}
        /\ UNCHANGED <<count, freezedText, world, camera, canvas, host, raster,
                       renders, uncaught, clicks, nCalls, nWrites, lastCall,
                       got, waited, hist, engineVars>>

\* const color = wasm.color_at(world, camera, i, j)
ColorAtStep ==
    /\ cur.pc = "row"
    /\ \E r \in {cur.render} :
       \E i \in {renders[r].i} :
       \E j \in {cur.j} :
       \E res \in {color_at(world, camera, i, j)} :
           /\ lastCall' = [made |-> TRUE, world |-> world, camera |-> camera,
                           px |-> i, py |-> j, render |-> r, ok |-> res.ok]
           /\ got' = IF <<i, j>> \in Pixels
                     THEN [got EXCEPT ![<<i, j>>] =
                              [made |-> TRUE, result |-> res,
                               missed |-> ~hits(WorldOf(world),
                                   ray_for_pixel(camera, i, j).value).hit]]
                     ELSE got
           /\ nCalls' = IF <<i, j>> \in Pixels
                        THEN [nCalls EXCEPT ![r][<<i, j>>] = @ + 1]
                        ELSE nCalls
           /\ taskPixels' = taskPixels \union {<<r, i, j>>}
           /\ waited' = [k \in 1 .. Len(waited) |->
                             IF waited[k] > canvas.height THEN waited[k]
                             ELSE waited[k] + 1]
           /\ IF res.ok
              THEN /\ cur' = [pc |-> "write", task |-> cur.task,
                              render |-> r, j |-> j, color |-> res.value]
                   /\ UNCHANGED uncaught
              ELSE /\ cur' = Throw(cur)
                   /\ uncaught' = uncaught \union
                                    {[render |-> r, px |-> i, py |-> j,
                                      error |-> res.error]}
    /\ UNCHANGED <<count, freezedText, world, camera, canvas, host, raster,
                   renders, queue, clicks, nWrites, hist, engineVars>>

\* getImageData, the four assignments, putImageData, and j++.
WritePixel ==
    /\ cur.pc = "write"
    /\ LET r == cur.render
           i == renders[r].i
           j == cur.j
           data == SetData(GetImageData(raster, i, j), cur.color)
       IN  /\ raster' = PutImageData(raster, data, i, j)
           /\ nWrites' = IF <<i, j>> \in Pixels
                         THEN [nWrites EXCEPT ![r][<<i, j>>] = @ + 1]
                         ELSE nWrites
           /\ cur' = [pc |-> IF MoreRows(NextRow(j)) THEN "row"
                              ELSE "resolve",
                      task |-> cur.task, render |-> r, j |-> NextRow(j)]
    /\ UNCHANGED <<count, freezedText, world, camera, canvas, host, renders,
                   queue,
                   uncaught, clicks, nCalls, lastCall, got, taskPixels,
                   waited, hist, engineVars>>

\* resolve(): the callback returns and the handler resumes in a microtask
\* of the same task, with i++ and the loop test.
Resume ==
    /\ cur.pc = "resolve"
    /\ LET r == cur.render
           i == renders[r].i + 1
           go == Schedule(queue, cur.task, r)
       IN  IF MoreColumns(i)
           THEN /\ renders' = [renders EXCEPT ![r] =
                                  [pc |-> "await", i |-> i,
                                   promise |-> "pending"]]
                /\ queue' = go.queue
                /\ cur' = go.cur
                /\ UNCHANGED hist
           ELSE /\ renders' = [renders EXCEPT ![r] =
                                  [pc |-> "done", i |-> i,
                                   promise |-> "resolved"]]
                /\ cur' = Idle
                /\ hist' = [hist EXCEPT ![r].end = <<raster>>]
                /\ UNCHANGED queue
    /\ UNCHANGED <<count, freezedText, world, camera, canvas, host, raster,
                   uncaught, clicks, nCalls, nWrites, lastCall, got,
                   taskPixels, waited, engineVars>>

Next ==
    \/ UserClick("render")
    \/ UserClick("freezed")
    \/ FreezedHandler
    \/ RenderHandler
    \/ TimerFire
    \/ ColorAtStep
    \/ WritePixel
    \/ Resume

Spec == Init /\ [][Next]_vars

\* What the host does on its own: it dispatches queued events, fires
\* scheduled timers and runs the task it started to its end.
HostStep ==
    \/ FreezedHandler
    \/ RenderHandler
    \/ TimerFire
    \/ ColorAtStep
    \/ WritePixel
    \/ Resume

LiveSpec == Init /\ [][Next]_vars /\ WF_vars(HostStep)

FifoSpec == FifoInit /\ [][Next]_vars

-----------------------------------------------------------------------------
(* Engine specification: worlds are built shape by shape and queried.      *)

InWorld(w, n) == \E k \in 1 .. Len(w.shapes) : w.shapes[k].id = n

\* A shape is added to the world.
EAddShape ==
    \E k \in 1 .. Len(ShapePool) :
        /\ Len(eWorld.shapes) < MaxShapes
        /\ ~InWorld(eWorld, ShapePool[k].id)
        /\ eWorld' = World(Append(eWorld.shapes, ShapePool[k]), eWorld.lights)
        /\ eQuery' = NoQuery
        /\ UNCHANGED driverVars

\* hits is asked for the ray of a pixel.
EHits ==
    \E p \in Pixels :
        LET ray == ray_for_pixel(camera, p[1], p[2]).value
        IN  /\ eQuery' = [asked |-> TRUE, world |-> eWorld, ray |-> ray,
                          result |-> hits(eWorld, ray)]
            /\ UNCHANGED <<eWorld, driverVars>>

EngineNext == EAddShape \/ EHits

\* The driver stands still in its initial state with the first scene.
EngineInit == Init /\ world = create_world(1)

EngineSpec == EngineInit /\ [][EngineNext]_vars

-----------------------------------------------------------------------------
(* Properties of the driver.                                               *)

Started == 1 .. Len(renders)

Column(r, i) == {<<r, i, j>> : j \in 0 .. canvas.height - 1}

Failed(r) == \E u \in uncaught : u.render = r

AllOnce(r) ==
    \A p \in Pixels : nCalls[r][p] = 1 /\ nWrites[r][p] = 1

\* C2: again and again every click made so far has been dispatched and
\* every handler has terminated or has seen color_at fail (clicks and
\* terminations are never undone, so each click leads to such a state); a
\* terminated render has called color_at and written each pixel exactly
\* once; a started render is never taken back and its column index never
\* decreases.
C2_RunsToCompletion ==
    /\ [](\A r \in Started : renders[r].pc = "done" => AllOnce(r))
    /\ []<>(/\ Len(renders) = clicks.render
            /\ \A r \in Started : renders[r].pc = "done" \/ Failed(r))
    /\ [][\A r \in Started :
             /\ r \in 1 .. Len(renders')
             /\ renders'[r].i >= renders[r].i
             /\ renders[r].pc = "done" => renders'[r] = renders[r]]_vars

\* A render has terminated.
C2_Witness ==
    \E r \in Started : renders[r].pc = "done" /\ AllOnce(r)

\* C3: color_at is only called with coordinates inside the camera, the
\* camera has the dimensions of the canvas, and no bounds error is raised.
C3_CallsInRange ==
    /\ camera.width = canvas.width
    /\ camera.height = canvas.height
    /\ lastCall.made =>
          /\ 0 <= lastCall.px /\ lastCall.px < lastCall.camera.width
          /\ 0 <= lastCall.py /\ lastCall.py < lastCall.camera.height
    /\ \A u \in uncaught : u.error # "bounds"

\* The last pixel of the raster has been asked for.
C3_Witness ==
    /\ lastCall.made
    /\ lastCall.px = CANVAS_WIDTH - 1
    /\ lastCall.py = CANVAS_HEIGHT - 1

Written(p) == \E r \in Started : nWrites[r][p] > 0

\* The component color_at returned for channel k of pixel p.
Component(p, k) == got[p].result.value[k]

Clamp01(n) == IF n < 0 THEN 0 ELSE IF n > Den THEN Den ELSE n

\* The integers nearest to x / Den, for x >= 0: one, or two on a tie.
NearestInts(x) ==
    LET below == (x \div Den) * Den
        above == below + Den
    IN  IF x - below < above - x THEN {below \div Den}
        ELSE IF x - below > above - x THEN {above \div Den}
        ELSE {below \div Den, above \div Den}

IsTie(x) == Cardinality(NearestInts(x)) = 2

\* round: to the nearest integer, a tie going up.
RoundHalfUp(x) ==
    CHOOSE b \in NearestInts(x) : \A m \in NearestInts(x) : m <= b

\* To the nearest integer, a tie going to the even one.
RoundHalfEven(x) ==
    CHOOSE b \in NearestInts(x) : IsTie(x) => b % 2 = 0

\* C4 as claimed: every stored colour byte is round(255 * clamp(c, 0, 1)).
C4_AsClaimed ==
    \A p \in Pixels : Written(p) =>
        \A k \in 1 .. 3 :
            raster[p][k] = RoundHalfUp(255 * Clamp01(Component(p, k)))

\* C4: every stored colour byte is 255 * clamp(c, 0, 1) rounded to the
\* nearest integer, a tie going to the even integer.
C4_Amended ==
    \A p \in Pixels : Written(p) =>
        \A k \in 1 .. 3 :
            raster[p][k] = RoundHalfEven(255 * Clamp01(Component(p, k)))

\* Pixels with a negative component, with a component above 1 and with a
\* component halfway between two bytes have been written.
C4_Witness ==
    /\ \E p \in Pixels : \E k \in 1 .. 3 :
          Written(p) /\ Component(p, k) < 0
    /\ \E p \in Pixels : \E k \in 1 .. 3 :
          Written(p) /\ Component(p, k) > Den
    /\ \E p \in Pixels : \E k \in 1 .. 3 :
          Written(p) /\ IsTie(255 * Clamp01(Component(p, k)))

\* C5: no step changes world or camera, and every color_at call receives
\* them.
C5_SceneFixed ==
    /\ [](lastCall.made =>
             lastCall.world = world /\ lastCall.camera = camera)
    /\ [](camera = create_camera(CANVAS_WIDTH, CANVAS_HEIGHT))
    /\ [][world' = world /\ camera' = camera]_vars

\* The second of two overlapping renders has called color_at.
C5_Witness ==
    /\ lastCall.made
    /\ lastCall.render = 2
    /\ renders[1].pc = "await"
    /\ count > 0

\* C6: the step in which color_at fails leaves the raster as it was, the
\* failing render never writes the failed pixel, and every raster pixel is
\* untouched or holds four bytes with alpha 255.
C6_FailedPixelUntouched ==
    /\ [](\A u \in uncaught : nWrites[u.render][<<u.px, u.py>>] = 0)
    /\ [](\A p \in Pixels :
             \/ raster[p] = Transparent
             \/ /\ raster[p][4] = 255
                /\ \A k \in 1 .. 3 : raster[p][k] \in 0 .. 255)
    /\ [][uncaught' # uncaught => raster' = raster]_vars

\* color_at failed below a pixel the same callback had written.
C6_Witness ==
    \E u \in uncaught :
        /\ u.py > 0
        /\ nWrites[u.render][<<u.px, 0>>] = 1
        /\ raster[<<u.px, 0>>] # Transparent
        /\ raster[<<u.px, u.py>>] = Transparent

\* C7 as claimed: once color_at has failed in a render, the promise the
\* handler awaits is eventually settled and the handler eventually leaves
\* its await.
C7_AsClaimed ==
    \A r \in 1 .. MaxRenderClicks :
        (r \in Started /\ Failed(r)) ~>
            (/\ r \in Started
             /\ renders[r].promise # "pending"
             /\ renders[r].pc # "await")

\* C8: a render that was started after another had finished ends with the
\* raster the earlier one ended with.
C8_Repeatable ==
    \A r1, r2 \in Started :
        (r1 \in hist[r2].after /\ hist[r2].end # <<>>) =>
            hist[r2].end = hist[r1].end

\* A render started after the end of another one has finished too.
C8_Witness ==
    \E r1, r2 \in Started :
        /\ r1 \in hist[r2].after
        /\ hist[r2].end = <<raster>>
        /\ \E p \in Pixels : raster[p] \notin {Transparent, <<0, 0, 0, 255>>}

\* All (t, shape) pairs of a world on a ray.
Candidates(w, ray) ==
    UNION { {<<local_intersect(w.shapes[k], ray)[n], w.shapes[k].id>> :
                n \in 1 .. Len(local_intersect(w.shapes[k], ray))} :
            k \in 1 .. Len(w.shapes) }

Reordered(w, f) ==
    World([k \in 1 .. Len(w.shapes) |-> w.shapes[f[k]]], w.lights)

\* C9: hits answers none exactly when no intersection has t > 0; otherwise
\* it answers an intersection of the world with t > 0 that no other
\* intersection with t > 0 precedes; and after any reordering of the shapes
\* it answers the same t, and the same shape when one shape alone attains it.
C9_NearestPositive ==
    eQuery.asked =>
        LET w == eQuery.world
            ray == eQuery.ray
            res == eQuery.result
            pos == {c \in Candidates(w, ray) : c[1] > 0}
        IN  /\ res.hit <=> pos # {}
            /\ res.hit =>
                  /\ <<res.t, res.object>> \in pos
                  /\ \A c \in pos : res.t <= c[1]
            /\ \A f \in Permutations(1 .. Len(w.shapes)) :
                  LET other == hits(Reordered(w, f), ray)
                  IN  /\ other.hit = res.hit
                      /\ res.hit =>
                            /\ other.t = res.t
                            /\ Cardinality({c \in pos : c[1] = res.t}) = 1
                                  => other.object = res.object

\* hits answered for a world of several shapes that also has an
\* intersection behind the origin and one at the origin.
C9_Witness ==
    /\ eQuery.asked
    /\ eQuery.result.hit
    /\ Len(eQuery.world.shapes) >= 2
    /\ \E c \in Candidates(eQuery.world, eQuery.ray) : c[1] = 0
    /\ \E c \in Candidates(eQuery.world, eQuery.ray) : c[1] < 0

\* The ray of the latest color_at call for pixel p hit nothing.
Misses(p) == got[p].made /\ got[p].missed

Before(p, q) == p[1] < q[1] \/ (p[1] = q[1] /\ p[2] < q[2])

WrittenBy(r) == {p \in Pixels : nWrites[r][p] > 0}

\* C11: the pixels a render has written are always an initial stretch of
\* the column-major order, none written twice; the column a render is at
\* has every earlier column written in full; and the step that writes a
\* pixel finds written exactly the pixels that come before it.
C11_ColumnMajor ==
    /\ [](\A r \in Started :
            /\ \A p \in WrittenBy(r) : \A q \in Pixels :
                  Before(q, p) => q \in WrittenBy(r)
            /\ \A p \in Pixels : nWrites[r][p] <= 1
            /\ \A p \in Pixels : p[1] < renders[r].i => p \in WrittenBy(r))
    /\ [][\A r \in Started : \A p \in Pixels :
             nWrites'[r][p] > nWrites[r][p] =>
                 \A q \in Pixels : q \in WrittenBy(r) <=> Before(q, p)]_vars

\* A render is in its second column and has written that column's first
\* row.
C11_Witness ==
    \E r \in Started :
        /\ renders[r].i = 1
        /\ Cardinality(WrittenBy(r)) = CANVAS_HEIGHT + 1
        /\ <<1, 0>> \in WrittenBy(r)

\* A render has written pixels and has not finished.
Partway(r) == WrittenBy(r) # {} /\ renders[r].pc # "done"

\* C12 as claimed: at most one render is in progress: while a column
\* callback of one render runs, no other render is partway through its
\* pass, and no two renders are partway through their passes together.
C12_AsClaimed ==
    /\ cur.pc \in {"row", "write", "resolve"} =>
          \A r \in Started \ {cur.render} : ~Partway(r)
    /\ \A r1, r2 \in Started :
          (Partway(r1) /\ Partway(r2)) => r1 = r2

\* C13 as claimed: under a host that runs tasks in arrival order, a queued
\* click on the freezed element sees at most height color_at calls before
\* it is handled.
C13_AsClaimed ==
    host = "arrival" =>
        \A k \in 1 .. Len(waited) : waited[k] <= canvas.height

\* A click listener runs in this step.
ClickHandled == count' # count \/ Len(renders') # Len(renders)

WholeColumns(r) == Cardinality(WrittenBy(r)) % canvas.height = 0

\* C14 as claimed: whenever a click listener runs, every render has written
\* a multiple of height pixels.
C14_AsClaimed ==
    [][ClickHandled => \A r \in Started : WholeColumns(r)]_vars

\* C14, amended: whenever a click listener runs, every render in which
\* color_at has not failed has written a multiple of height pixels, and a
\* render in which it failed has written the columns before the failing
\* pixel and the rows above it.
C14_Amended ==
    [][ClickHandled =>
          \A r \in Started :
              /\ ~Failed(r) => WholeColumns(r)
              /\ \A u \in uncaught : u.render = r =>
                    WrittenBy(r) = {p \in Pixels : Before(p, <<u.px, u.py>>)}
      ]_vars

\* The host is idle with a click on the freezed element next in its queue
\* while one render has written exactly its first column and another has
\* failed partway through a column.
C14_Witness ==
    /\ cur = Idle
    /\ queue # <<>>
    /\ queue[1] = Click("freezed")
    /\ \E r \in Started :
          Partway(r) /\ ~Failed(r) /\ Cardinality(WrittenBy(r)) = CANVAS_HEIGHT
    /\ \E r \in Started : Failed(r) /\ ~WholeColumns(r)

\* The bytes of the colour color_at returned for pixel p, opaque.
OwnBytes(p) ==
    <<RoundHalfEven(255 * Clamp01(Component(p, 1))),
      RoundHalfEven(255 * Clamp01(Component(p, 2))),
      RoundHalfEven(255 * Clamp01(Component(p, 3))),
      255>>

\* Two renders that ran at the same time.
Overlapped(r1, r2) ==
    r1 # r2 /\ r1 \notin hist[r2].after /\ r2 \notin hist[r1].after

\* C15: what is recorded for a pixel is what color_at returns for that
\* pixel's coordinates; every pixel is either untouched or holds the bytes
\* of that colour with alpha 255; and once every started render has
\* finished every pixel holds them.
C15_OverlapHarmless ==
    /\ lastCall.made =>
          got[<<lastCall.px, lastCall.py>>].result =
              color_at(world, camera, lastCall.px, lastCall.py)
    /\ \A p \in Pixels :
          \/ raster[p] = Transparent
          \/ /\ got[p].made
             /\ got[p].result.ok
             /\ raster[p] = OwnBytes(p)
    /\ (Started # {} /\ \A r \in Started : renders[r].pc = "done") =>
          \A p \in Pixels : got[p].made /\ raster[p] = OwnBytes(p)

\* Two renders that ran at the same time have both finished, and the
\* raster holds a pixel that is neither black nor white.
C15_Witness ==
    /\ \A r \in Started : renders[r].pc = "done"
    /\ \E r1, r2 \in Started : Overlapped(r1, r2)
    /\ \E p \in Pixels :
          raster[p] \notin {<<0, 0, 0, 255>>, <<255, 255, 255, 255>>}

\* Clicks on the freezed element that are still queued.
PendingFreezed ==
    Cardinality({k \in 1 .. Len(queue) : queue[k] = Click("freezed")})

\* C16: count is the number of freezed clicks handled so far (those made
\* less those still queued) and the text shows it; count only ever grows
\* by one, in a step that takes a freezed click off the queue and leaves
\* the raster, the world, the camera and every render's progress alone; and
\* a step that changes a render, the raster or the running callback does
\* not change count.
C16_CountIndependent ==
    /\ [](/\ count = clicks.freezed - PendingFreezed
          /\ freezedText =
                IF count = 0 THEN <<>>
                ELSE <<"No, you are not! (", count, ")">>)
    /\ [][/\ count' \in {count, count + 1}
          /\ count' # count =>
                /\ PendingFreezed' = PendingFreezed - 1
                /\ UNCHANGED <<raster, world, camera, canvas, renders, cur,
                               nCalls, nWrites>>
          /\ (\/ renders' # renders
              \/ raster' # raster
              \/ cur' # cur
              \/ nCalls' # nCalls
              \/ nWrites' # nWrites) => count' = count]_vars

\* A freezed click has been handled, a render is partway through its pass
\* and another has finished.
C16_Witness ==
    /\ count = 1
    /\ PendingFreezed = 0
    /\ \E r \in Started : Partway(r)
    /\ \E r \in Started : renders[r].pc = "done"

\* The pixel of the latest color_at call.
CalledPixel == <<lastCall.px, lastCall.py>>

\* C17: construction leaves the raster untouched; a callback is about to
\* write only right after the color_at call for the pixel it is at, and
\* its next step is that write (meanwhile the host can only queue a
\* click); a step that changes a pixel is that write, of the pixel of the
\* latest call; and the step of a color_at call changes no pixel.
C17_OnlyCallbacksWrite ==
    /\ [](/\ Started = {} => \A p \in Pixels : raster[p] = Transparent
          /\ cur.pc = "write" =>
                /\ lastCall.made
                /\ lastCall.render = cur.render
                /\ CalledPixel = <<renders[cur.render].i, cur.j>>)
    /\ [][/\ \A p \in Pixels : raster'[p] # raster[p] =>
                /\ cur.pc = "write"
                /\ p = CalledPixel
                /\ lastCall' = lastCall
          /\ (cur'.pc = "write" /\ cur.pc # "write") =>
                /\ cur.pc = "row"
                /\ nCalls'[cur.render][CalledPixel'] =
                       nCalls[cur.render][CalledPixel'] + 1
          /\ (cur.pc = "write" /\ cur' # cur) =>
                nWrites'[cur.render][CalledPixel] =
                    nWrites[cur.render][CalledPixel] + 1
          /\ (nCalls' # nCalls \/ lastCall' # lastCall \/ got' # got) =>
                raster' = raster]_vars

\* The pixel of the latest call has just been written and is not black,
\* and other pixels are still untouched.
C17_Witness ==
    /\ lastCall.made
    /\ cur.pc \in {"row", "resolve"}
    /\ nWrites[lastCall.render][CalledPixel] = 1
    /\ raster[CalledPixel] \notin {Transparent, <<0, 0, 0, 255>>}
    /\ \E p \in Pixels : raster[p] = Transparent

=============================================================================
